---------------------------- MODULE Spec2Model ----------------------------
(***************************************************************************)
(* A model of the constraint-propagation Sudoku solver of                  *)
(* src/src/sudoku-solver.ts.                                               *)
(*                                                                         *)
(* The puzzle is a record: per cell (index 0..80) its value (0 stands for  *)
(* "the cell has no own property 'value'"), its candidates (a sequence, in *)
(* array order) and its given flag; the action log; checkCounter;          *)
(* lastCheckWithAction (Null before the first logged action); the two      *)
(* solve parameters; and `thrown`, set when fillCellWithValue throws (the  *)
(* exception is not caught anywhere, so every later operation is skipped). *)
(*                                                                         *)
(* The functions of the source are operators from puzzle to puzzle,        *)
(* computed as the code computes them; the state machine walks solvePuzzle *)
(* one rule step at a time.                                                *)
(***************************************************************************)
EXTENDS Integers, Sequences, FiniteSets, TLC

VARIABLES
    values,         \* the input grid handed to initializePuzzleFromArray (81 numbers, row-major)
    puzzle,         \* the SudokuPuzzle object
    pc,             \* position of the control flow inside solvePuzzle
    unfilledCells,  \* the array `unfilledCells` of the loop that is running
    cellIndex,      \* position in `unfilledCells` (1-based)
    step            \* position inside initializeCandidates' loop body or inside checkCell

vars == <<values, puzzle, pc, unfilledCells, cellIndex, step>>

-----------------------------------------------------------------------------
(* Program constants *)

GridSize == 9
BoxSize == 3
DefaultMaxChecks == 10000
DefaultMaxChecksWithoutAction == 500

Null == -1

Cells == 0 .. (GridSize * GridSize - 1)
AllCells == [i \in 1 .. GridSize * GridSize |-> i - 1]
Digits == <<1, 2, 3, 4, 5, 6, 7, 8, 9>>

\* initializeEmpty9x9SudokuPuzzle: the geometry of a cell
Row(c) == c \div GridSize
Column(c) == c % GridSize
Box(c) ==
    LET boxRow == IF Row(c) < BoxSize THEN 0 ELSE IF Row(c) < 2 * BoxSize THEN 1 ELSE 2
        boxColumn == IF Column(c) < BoxSize THEN 0 ELSE IF Column(c) < 2 * BoxSize THEN 1 ELSE 2
    IN  boxRow * BoxSize + boxColumn

-----------------------------------------------------------------------------
(* Array helpers *)

\* Array.prototype.indexOf, 0-based, -1 when absent
RECURSIVE IndexFrom(_, _, _)
IndexFrom(s, x, k) ==
    IF k > Len(s) THEN -1
    ELSE IF s[k] = x THEN k - 1
    ELSE IndexFrom(s, x, k + 1)

IndexOf(s, x) == IndexFrom(s, x, 1)

\* Array.prototype.splice(i, 1), i 0-based
Splice1(s, i) == [k \in 1 .. Len(s) - 1 |-> IF k <= i THEN s[k] ELSE s[k + 1]]

Last(s) == s[Len(s)]

-----------------------------------------------------------------------------
(* The puzzle object *)

\* variant: only the given cells count as filled
HasValue_givenOnly(p, c) == p.value[c] # 0 /\ p.given[c]

HasValue(p, c) == p.value[c] # 0

initializeEmpty9x9SudokuPuzzle ==
    [ value |-> [c \in Cells |-> 0],
      candidates |-> [c \in Cells |-> <<>>],
      given |-> [c \in Cells |-> FALSE],
      actions |-> <<>>,
      checkCounter |-> 0,
      lastCheckWithAction |-> Null,
      maxChecks |-> DefaultMaxChecks,
      maxChecksWithoutAction |-> DefaultMaxChecksWithoutAction,
      thrown |-> FALSE ]

\* values: the grid, flattened row-major (values[row * 9 + column + 1])
initializePuzzleFromArray(vals) ==
    LET e == initializeEmpty9x9SudokuPuzzle
    IN  [e EXCEPT !.value = [c \in Cells |-> IF vals[c + 1] # 0 THEN vals[c + 1] ELSE 0],
                  !.given = [c \in Cells |-> vals[c + 1] # 0]]

logAction(p, action) ==
    [p EXCEPT !.actions = Append(@, action),
              !.lastCheckWithAction = p.checkCounter]

Action(type, cells, cands, reason) ==
    [actionType |-> type, cells |-> cells, candidates |-> cands, actionReason |-> reason]

-----------------------------------------------------------------------------
(* Peer queries *)

\* criterion: the predicate on cells, as a function from cell index to BOOLEAN
getCellsMeetingCriterion(p, criterion, filterCondition, excludeIndex) ==
    SelectSeq(AllCells,
        LAMBDA c :
            /\ criterion[c]
            /\ CASE filterCondition = "ALL_CELLS" -> TRUE
                 [] filterCondition = "FILLED_CELLS" -> HasValue(p, c)
                 [] filterCondition = "UNFILLED_CELLS" -> ~HasValue(p, c)
            /\ (excludeIndex = Null \/ excludeIndex # c))

getCellsInBox(p, boxIndex, filterCondition, excludeIndex) ==
    getCellsMeetingCriterion(p, [c \in Cells |-> Box(c) = boxIndex], filterCondition, excludeIndex)

getCellsInColumn(p, column, filterCondition, excludeIndex) ==
    getCellsMeetingCriterion(p, [c \in Cells |-> Column(c) = column], filterCondition, excludeIndex)

getCellsInRow(p, row, filterCondition, excludeIndex) ==
    getCellsMeetingCriterion(p, [c \in Cells |-> Row(c) = row], filterCondition, excludeIndex)

getUnfilledCells(p) == SelectSeq(AllCells, LAMBDA c : ~HasValue(p, c))

\* variant: the neighbours in the same box are forgotten
getUnfilledNeighborsOfCell_noBox(p, cell) ==
    SelectSeq(AllCells,
        LAMBDA n :
            /\ cell # n
            /\ ~HasValue(p, n)
            /\ (Column(cell) = Column(n) \/ Row(cell) = Row(n)))

getUnfilledNeighborsOfCell(p, cell) ==
    SelectSeq(AllCells,
        LAMBDA n :
            /\ cell # n
            /\ ~HasValue(p, n)
            /\ (Box(cell) = Box(n) \/ Column(cell) = Column(n) \/ Row(cell) = Row(n)))

-----------------------------------------------------------------------------
(* Fill propagation.  removeCandidateFromCell and fillCellWithValue call   *)
(* each other; once fillCellWithValue has thrown nothing more happens.     *)

RECURSIVE removeCandidateFromCell(_, _, _, _)
RECURSIVE fillCellWithValue(_, _, _, _)
RECURSIVE fillNeighbors(_, _, _, _)

\* The reason tagged on the elimination a fill of `cell` causes on `neighbor`
\* variant: the column is tested before the box
neighborReason_columnFirst(cell, neighbor) ==
    IF Column(cell) = Column(neighbor) THEN "COLUMN_CHECK"
    ELSE IF Box(cell) = Box(neighbor) THEN "BOX_CHECK"
    ELSE "ROW_CHECK"

neighborReason(cell, neighbor) ==
    IF Box(cell) = Box(neighbor) THEN "BOX_CHECK"
    ELSE IF Column(cell) = Column(neighbor) THEN "COLUMN_CHECK"
    ELSE "ROW_CHECK"

\* variant: a cell left with one candidate is not filled
removeCandidateFromCell_noFill(p, cell, candidate, reasonForActions) ==
    IF p.thrown THEN p
    ELSE
    LET candidateIndex == IndexOf(p.candidates[cell], candidate)
    IN  IF candidateIndex = -1 THEN p
        ELSE logAction(
                [p EXCEPT !.candidates[cell] = Splice1(@, candidateIndex)],
                Action("REMOVE_CANDIDATES", <<cell>>, <<candidate>>, reasonForActions))

\* variant: splice is given the candidate where it wants the candidate's index
removeCandidateFromCell_spliceAtValue(p, cell, candidate, reasonForActions) ==
    IF p.thrown THEN p
    ELSE
    LET candidateIndex == IndexOf(p.candidates[cell], candidate)
    IN  IF candidateIndex = -1 THEN p
        ELSE
        LET p1 == logAction(
                    [p EXCEPT !.candidates[cell] =
                        IF candidate < Len(@) THEN Splice1(@, candidate) ELSE @],
                    Action("REMOVE_CANDIDATES", <<cell>>, <<candidate>>, reasonForActions))
        IN  IF Len(p1.candidates[cell]) = 1
            THEN fillCellWithValue(p1, cell, p1.candidates[cell][1], "ONLY_CANDIDATE")
            ELSE p1

removeCandidateFromCell(p, cell, candidate, reasonForActions) ==
    IF p.thrown THEN p
    ELSE
    LET candidateIndex == IndexOf(p.candidates[cell], candidate)
    IN  IF candidateIndex = -1 THEN p
        ELSE
        LET p1 == logAction(
                    [p EXCEPT !.candidates[cell] = Splice1(@, candidateIndex)],
                    Action("REMOVE_CANDIDATES", <<cell>>, <<candidate>>, reasonForActions))
        IN  IF Len(p1.candidates[cell]) = 1
            THEN fillCellWithValue(p1, cell, p1.candidates[cell][1], "ONLY_CANDIDATE")
            ELSE p1

\* the loop over unfilledNeighbors at the end of fillCellWithValue
fillNeighbors(p, cell, unfilledNeighbors, k) ==
    IF p.thrown \/ k > Len(unfilledNeighbors) THEN p
    ELSE fillNeighbors(
            removeCandidateFromCell(p, unfilledNeighbors[k], p.value[cell],
                                    neighborReason(cell, unfilledNeighbors[k])),
            cell, unfilledNeighbors, k + 1)

\* variant: a cell that already has a value is filled again
fillCellWithValue_overwrites(p, cell, value, reasonForActions) ==
    IF p.thrown THEN p
    ELSE
    LET p1 == logAction(
                [p EXCEPT !.value[cell] = value, !.candidates[cell] = <<value>>],
                Action("FILL_CELL", <<cell>>, <<value>>, reasonForActions))
    IN  fillNeighbors(p1, cell, getUnfilledNeighborsOfCell(p1, cell), 1)

fillCellWithValue(p, cell, value, reasonForActions) ==
    IF p.thrown THEN p
    ELSE IF HasValue(p, cell) THEN [p EXCEPT !.thrown = TRUE]
    ELSE
    LET p1 == logAction(
                [p EXCEPT !.value[cell] = value, !.candidates[cell] = <<value>>],
                Action("FILL_CELL", <<cell>>, <<value>>, reasonForActions))
    IN  fillNeighbors(p1, cell, getUnfilledNeighborsOfCell(p1, cell), 1)

-----------------------------------------------------------------------------
(* Termination policy.  Both functions return a boolean and may log: the   *)
(* operators return the pair [ok / solved, puzzle].                        *)

\* variant: the solved action is logged on every evaluation
puzzleIsSolved_alwaysLogs(p) ==
    LET solved == Len(getUnfilledCells(p)) = 0
    IN  IF solved
        THEN [solved |-> solved,
              puzzle |-> logAction(p, Action("PUZZLE_SOLVED", <<>>, <<>>, "PUZZLE_SOLVED"))]
        ELSE [solved |-> solved, puzzle |-> p]

puzzleIsSolved(p) ==
    LET solved == Len(getUnfilledCells(p)) = 0
    IN  IF solved /\ (Len(p.actions) = 0 \/ Last(p.actions).actionType # "PUZZLE_SOLVED")
        THEN [solved |-> solved,
              puzzle |-> logAction(p, Action("PUZZLE_SOLVED", <<>>, <<>>, "PUZZLE_SOLVED"))]
        ELSE [solved |-> solved, puzzle |-> p]

\* variant: the budget guard trips one check early
maxChecksExceeded_oneEarly(p) == p.checkCounter + 1 >= p.maxChecks

\* the budget guard of okayToKeepTrying
maxChecksExceeded(p) == p.checkCounter >= p.maxChecks

okayToKeepTrying(p) ==
    LET s == puzzleIsSolved(p)
        q == s.puzzle
    IN  IF s.solved THEN [ok |-> FALSE, puzzle |-> q]
        ELSE IF maxChecksExceeded(q)
        THEN [ok |-> FALSE,
              puzzle |-> logAction(q, Action("QUIT_TRYING_MAX_CHECKS_EXCEEDED", <<>>, <<>>,
                                             "MAX_CHECKS_EXCEEDED"))]
        ELSE IF q.lastCheckWithAction = Null /\ q.checkCounter >= q.maxChecksWithoutAction
        THEN [ok |-> FALSE,
              puzzle |-> logAction(q, Action("QUIT_TRYING_MAX_CHECKS_WITHOUT_ACTION_EXCEEDED",
                                             <<>>, <<>>, "MAX_CHECKS_WITHOUT_ACTION_EXCEEDED"))]
        ELSE IF q.lastCheckWithAction # Null
                /\ q.checkCounter - q.lastCheckWithAction >= q.maxChecksWithoutAction
        THEN [ok |-> FALSE,
              puzzle |-> logAction(q, Action("QUIT_TRYING_MAX_CHECKS_WITHOUT_ACTION_EXCEEDED",
                                             <<>>, <<>>, "MAX_CHECKS_WITHOUT_ACTION_EXCEEDED"))]
        ELSE [ok |-> TRUE, puzzle |-> q]

-----------------------------------------------------------------------------
(* Peer elimination *)

\* variant: the effort counter is not advanced
incrementCheckCounter_skipped(p) == p

incrementCheckCounter(p) == [p EXCEPT !.checkCounter = @ + 1]

checkCellAgainstCell(p, cell, comparisonCell, reasonForActions) ==
    IF p.thrown THEN p
    ELSE IF cell = comparisonCell THEN p
    ELSE IF HasValue(p, cell) THEN p
    ELSE
    LET p1 == incrementCheckCounter(p)
        comparisonValue == IF HasValue(p1, comparisonCell) THEN p1.value[comparisonCell] ELSE 0
    IN  IF comparisonValue # 0 /\ IndexOf(p1.candidates[cell], comparisonValue) >= 0
        THEN removeCandidateFromCell(p1, cell, comparisonValue, reasonForActions)
        ELSE p1

RECURSIVE checkCellAgainstCellsFrom(_, _, _, _, _)
\* variant: the scan fills the cell without asking whether the removal filled it
checkCellAgainstCellsFrom_unguarded(p, cell, comparisonCells, reasonForActions, k) ==
    IF p.thrown \/ k > Len(comparisonCells) THEN p
    ELSE
    LET p1 == checkCellAgainstCell(p, cell, comparisonCells[k], reasonForActions)
    IN  IF p1.thrown THEN p1
        ELSE IF Len(p1.candidates[cell]) = 1
        THEN fillCellWithValue(incrementCheckCounter(p1), cell,
                               p1.candidates[cell][1], "ONLY_CANDIDATE")
        ELSE checkCellAgainstCellsFrom(p1, cell, comparisonCells, reasonForActions, k + 1)

\* the for loop of checkCellAgainstArrayOfCells, from its k-th comparison cell
checkCellAgainstCellsFrom(p, cell, comparisonCells, reasonForActions, k) ==
    IF p.thrown \/ k > Len(comparisonCells) THEN p
    ELSE
    LET p1 == checkCellAgainstCell(p, cell, comparisonCells[k], reasonForActions)
    IN  IF p1.thrown THEN p1
        ELSE IF Len(p1.candidates[cell]) = 1
        THEN IF ~HasValue(p1, cell)
             THEN fillCellWithValue(incrementCheckCounter(p1), cell,
                                    p1.candidates[cell][1], "ONLY_CANDIDATE")
             ELSE p1
        ELSE checkCellAgainstCellsFrom(p1, cell, comparisonCells, reasonForActions, k + 1)

checkCellAgainstArrayOfCells(p, cell, comparisonCells, reasonForActions) ==
    IF p.thrown \/ HasValue(p, cell) THEN p
    ELSE checkCellAgainstCellsFrom(p, cell, comparisonCells, reasonForActions, 1)

checkCellAgainstBox(p, cell) ==
    IF p.thrown \/ HasValue(p, cell) THEN p
    ELSE checkCellAgainstArrayOfCells(p, cell,
            getCellsInBox(p, Box(cell), "FILLED_CELLS", cell), "BOX_CHECK")

checkCellAgainstColumn(p, cell) ==
    IF p.thrown \/ HasValue(p, cell) THEN p
    ELSE checkCellAgainstArrayOfCells(p, cell,
            getCellsInColumn(p, Column(cell), "FILLED_CELLS", cell), "COLUMN_CHECK")

\* variant: the row of the cell is not looked at
checkCellAgainstRow_skipped(p, cell) == p

checkCellAgainstRow(p, cell) ==
    IF p.thrown \/ HasValue(p, cell) THEN p
    ELSE checkCellAgainstArrayOfCells(p, cell,
            getCellsInRow(p, Row(cell), "FILLED_CELLS", cell), "ROW_CHECK")

-----------------------------------------------------------------------------
(* Sole-candidate-location rule *)

RECURSIVE scanAreaForCandidate(_, _, _, _, _)
\* variant: the scan stops after the first three cells of the area
scanAreaForCandidate_firstThree(p, cell, candidate, cellsToCheckAgainst, k) ==
    IF k > Len(cellsToCheckAgainst) \/ k > BoxSize THEN [possibilityFound |-> FALSE, puzzle |-> p]
    ELSE IF cellsToCheckAgainst[k] = cell
    THEN scanAreaForCandidate(p, cell, candidate, cellsToCheckAgainst, k + 1)
    ELSE
    LET p1 == incrementCheckCounter(p)
    IN  IF IndexOf(p1.candidates[cellsToCheckAgainst[k]], candidate) # -1
        THEN [possibilityFound |-> TRUE, puzzle |-> p1]
        ELSE
        LET o == okayToKeepTrying(p1)
        IN  IF ~o.ok THEN [possibilityFound |-> FALSE, puzzle |-> o.puzzle]
            ELSE scanAreaForCandidate(o.puzzle, cell, candidate, cellsToCheckAgainst, k + 1)

\* The inner for loop of checkWhetherCellIsOnlyPossibilityInAreaForAnyNumber, from
\* its k-th comparison cell: [possibilityFound, puzzle].
scanAreaForCandidate(p, cell, candidate, cellsToCheckAgainst, k) ==
    IF k > Len(cellsToCheckAgainst) THEN [possibilityFound |-> FALSE, puzzle |-> p]
    ELSE IF cellsToCheckAgainst[k] = cell
    THEN scanAreaForCandidate(p, cell, candidate, cellsToCheckAgainst, k + 1)
    ELSE
    LET p1 == incrementCheckCounter(p)
    IN  IF IndexOf(p1.candidates[cellsToCheckAgainst[k]], candidate) # -1
        THEN [possibilityFound |-> TRUE, puzzle |-> p1]
        ELSE
        LET o == okayToKeepTrying(p1)
        IN  IF ~o.ok THEN [possibilityFound |-> FALSE, puzzle |-> o.puzzle]
            ELSE scanAreaForCandidate(o.puzzle, cell, candidate, cellsToCheckAgainst, k + 1)

RECURSIVE checkCandidatesFrom(_, _, _, _, _)
\* variant: the candidate tried is the digit candidateIndex + 1 instead of the
\* candidate at position candidateIndex
checkCandidatesFrom_digitForIndex(p, cellsToCheckAgainst, cell, reasonForActions, candidateIndex) ==
    IF candidateIndex >= Len(p.candidates[cell]) THEN p
    ELSE
    LET candidate == candidateIndex + 1
        r == scanAreaForCandidate(p, cell, candidate, cellsToCheckAgainst, 1)
    IN  IF ~r.possibilityFound
        THEN fillCellWithValue(r.puzzle, cell, candidate, reasonForActions)
        ELSE
        LET o == okayToKeepTrying(r.puzzle)
        IN  IF ~o.ok THEN o.puzzle
            ELSE checkCandidatesFrom(o.puzzle, cellsToCheckAgainst, cell, reasonForActions,
                                     candidateIndex + 1)

\* The outer for loop, from candidateIndex (0-based, as in the source)
checkCandidatesFrom(p, cellsToCheckAgainst, cell, reasonForActions, candidateIndex) ==
    IF candidateIndex >= Len(p.candidates[cell]) THEN p
    ELSE
    LET candidate == p.candidates[cell][candidateIndex + 1]
        r == scanAreaForCandidate(p, cell, candidate, cellsToCheckAgainst, 1)
    IN  IF ~r.possibilityFound
        THEN fillCellWithValue(r.puzzle, cell, candidate, reasonForActions)
        ELSE
        LET o == okayToKeepTrying(r.puzzle)
        IN  IF ~o.ok THEN o.puzzle
            ELSE checkCandidatesFrom(o.puzzle, cellsToCheckAgainst, cell, reasonForActions,
                                     candidateIndex + 1)

\* variant: the test for a cell that already has a value is left out
checkWhetherCellIsOnlyPossibilityInAreaForAnyNumber_unguarded(p, cellsToCheckAgainst, cell, reasonForActions) ==
    checkCandidatesFrom(p, cellsToCheckAgainst, cell, reasonForActions, 0)

checkWhetherCellIsOnlyPossibilityInAreaForAnyNumber(p, cellsToCheckAgainst, cell, reasonForActions) ==
    IF p.thrown \/ HasValue(p, cell) THEN p
    ELSE checkCandidatesFrom(p, cellsToCheckAgainst, cell, reasonForActions, 0)

checkWhetherCellIsOnlyPossibilityInBoxForAnyNumber(p, cell) ==
    IF p.thrown \/ HasValue(p, cell) THEN p
    ELSE checkWhetherCellIsOnlyPossibilityInAreaForAnyNumber(p,
            getCellsInBox(p, Box(cell), "ALL_CELLS", Null), cell, "BOX_CHECK")

checkWhetherCellIsOnlyPossibilityInColumnForAnyNumber(p, cell) ==
    IF p.thrown \/ HasValue(p, cell) THEN p
    ELSE checkWhetherCellIsOnlyPossibilityInAreaForAnyNumber(p,
            getCellsInColumn(p, Column(cell), "ALL_CELLS", Null), cell, "COLUMN_CHECK")

checkWhetherCellIsOnlyPossibilityInRowForAnyNumber(p, cell) ==
    IF p.thrown \/ HasValue(p, cell) THEN p
    ELSE checkWhetherCellIsOnlyPossibilityInAreaForAnyNumber(p,
            getCellsInRow(p, Row(cell), "ALL_CELLS", Null), cell, "ROW_CHECK")

-----------------------------------------------------------------------------
(* Solution verification and output *)

\* TRUE iff verifySolution throws its Conflict error
verifySolution(p) ==
    \E cell \in Cells :
        \/ \E c \in Cells : c # cell /\ Box(c) = Box(cell)
                            /\ (~HasValue(p, c) \/ p.value[c] = p.value[cell])
        \/ \E c \in Cells : c # cell /\ Column(c) = Column(cell)
                            /\ (~HasValue(p, c) \/ p.value[c] = p.value[cell])
        \/ \E c \in Cells : c # cell /\ Row(c) = Row(cell)
                            /\ (~HasValue(p, c) \/ p.value[c] = p.value[cell])

\* String(n) for the numbers a cell can hold
RECURSIVE NumberToString(_)
NumberToString(n) ==
    IF n < 0 THEN <<"-">> \o NumberToString(-n)
    ELSE IF n < 10 THEN <<<<"0", "1", "2", "3", "4", "5", "6", "7", "8", "9">>[n + 1]>>
    ELSE NumberToString(n \div 10) \o NumberToString(n % 10)

RECURSIVE outputCellsFrom(_, _)
outputCellsFrom(p, c) ==
    IF c \notin Cells THEN <<>>
    ELSE (IF HasValue(p, c) THEN NumberToString(p.value[c]) ELSE <<"0">>)
         \o outputCellsFrom(p, c + 1)

\* the string as the sequence of its characters
outputPuzzleAsStringOfNumbers(p) == outputCellsFrom(p, 0)

\* what showReasonForQuitting reports; "CONFLICT" is the error of verifySolution
\* caught at lines 560-565, after which the process exits with -1
reasonForQuitting(p) ==
    IF puzzleIsSolved(p).solved
    THEN IF verifySolution(puzzleIsSolved(p).puzzle) THEN "CONFLICT" ELSE "SOLVED"
    ELSE CASE Last(p.actions).actionReason = "MAX_CHECKS_EXCEEDED" -> "STALLED_BUDGET"
           [] Last(p.actions).actionReason = "MAX_CHECKS_WITHOUT_ACTION_EXCEEDED" -> "STALLED_STAGNATION"
           [] OTHER -> "Unknown!"

-----------------------------------------------------------------------------
(* Inputs: grids (row-major, 0 for an empty cell) and solve parameters *)

\* puzzleValues of the source, the classic example grid
ClassicGrid ==
    <<5, 3, 0, 0, 7, 0, 0, 0, 0,
       6, 0, 0, 1, 9, 5, 0, 0, 0,
       0, 9, 8, 0, 0, 0, 0, 6, 0,
       8, 0, 0, 0, 6, 0, 0, 0, 3,
       4, 0, 0, 8, 0, 3, 0, 0, 1,
       7, 0, 0, 0, 2, 0, 0, 0, 6,
       0, 6, 0, 0, 0, 0, 2, 8, 0,
       0, 0, 0, 4, 1, 9, 0, 0, 5,
       0, 0, 0, 0, 8, 0, 0, 7, 9>>

\* the completion of ClassicGrid
ClassicSolution ==
    <<5, 3, 4, 6, 7, 8, 9, 1, 2,
       6, 7, 2, 1, 9, 5, 3, 4, 8,
       1, 9, 8, 3, 4, 2, 5, 6, 7,
       8, 5, 9, 7, 6, 1, 4, 2, 3,
       4, 2, 6, 8, 5, 3, 7, 9, 1,
       7, 1, 3, 9, 2, 4, 8, 5, 6,
       9, 6, 1, 5, 3, 7, 2, 8, 4,
       2, 8, 7, 4, 1, 9, 6, 3, 5,
       3, 4, 5, 2, 8, 6, 1, 7, 9>>

\* no givens at all: every cell keeps all nine candidates
EmptyGrid == [i \in 1 .. GridSize * GridSize |-> 0]

\* 35 givens of ClassicSolution, ClassicSolution its only completion; candidate
\* initialization fills 15 cells and the main loop has to find the rest
HiddenSingleGrid ==
    <<5, 3, 0, 0, 7, 8, 0, 0, 0,
       0, 0, 0, 1, 0, 0, 3, 4, 8,
       1, 0, 0, 0, 4, 0, 0, 0, 0,
       0, 0, 0, 0, 6, 1, 4, 2, 3,
       4, 0, 0, 0, 0, 0, 0, 9, 1,
       0, 1, 0, 9, 0, 4, 8, 5, 0,
       9, 6, 0, 0, 0, 0, 0, 8, 0,
       0, 0, 0, 4, 1, 0, 6, 3, 5,
       0, 4, 0, 2, 0, 6, 0, 0, 9>>

\* 41 givens of ClassicSolution with two completions: propagation cannot finish
StagnationGrid ==
    <<5, 0, 0, 0, 0, 8, 9, 0, 0,
       0, 0, 0, 0, 9, 0, 0, 4, 8,
       0, 9, 8, 0, 0, 2, 0, 0, 7,
       8, 0, 9, 0, 6, 1, 4, 0, 0,
       4, 0, 6, 0, 5, 0, 7, 9, 1,
       0, 1, 0, 0, 2, 4, 0, 5, 0,
       9, 0, 0, 5, 3, 0, 0, 8, 0,
       2, 0, 7, 0, 1, 9, 6, 3, 5,
       3, 0, 5, 0, 0, 6, 1, 0, 9>>

\* ClassicSolution with its first row emptied and a 10 in the first cell
OutOfRangeGrid ==
    [i \in 1 .. GridSize * GridSize |->
        IF i = 1 THEN 10 ELSE IF i <= GridSize THEN 0 ELSE ClassicSolution[i]]

\* givens that admit no completion
ContradictoryGrid ==
    <<5, 3, 4, 0, 7, 0, 9, 1, 2,
       0, 7, 2, 0, 9, 5, 3, 4, 8,
       0, 9, 0, 0, 4, 2, 5, 0, 0,
       0, 5, 9, 7, 0, 0, 0, 0, 0,
       4, 2, 0, 6, 5, 3, 7, 0, 1,
       7, 1, 3, 9, 0, 4, 8, 5, 0,
       0, 6, 0, 5, 3, 7, 0, 0, 4,
       2, 8, 0, 0, 5, 9, 0, 0, 5,
       3, 4, 5, 2, 8, 6, 1, 7, 0>>

\* HiddenSingleGrid with a second 1 given in its second row: no completion, and
\* candidate initialization leaves cells unfilled
ConflictingGivenGrid ==
    [i \in 1 .. GridSize * GridSize |-> IF i = 17 THEN 1 ELSE HiddenSingleGrid[i]]

Grids == {ClassicGrid, ClassicSolution, EmptyGrid, HiddenSingleGrid, StagnationGrid,
          OutOfRangeGrid, ContradictoryGrid, ConflictingGivenGrid}

\* maxChecks of the budget-exhaustion scenario
SmallMaxChecks == 50
\* a maxChecks that runs out in the middle of the main loop on HiddenSingleGrid
MediumMaxChecks == 555
SmallMaxChecksWithoutAction == 1

MaxChecksChoices == {SmallMaxChecks, MediumMaxChecks, DefaultMaxChecks}
MaxChecksWithoutActionChoices == {SmallMaxChecksWithoutAction, DefaultMaxChecksWithoutAction}

\* The solve parameters a grid is solved with: every combination, except that the
\* empty grid, on which no rule ever fires, is only run with the small maxChecks.
Parameters(vals) ==
    {mp \in MaxChecksChoices \X MaxChecksWithoutActionChoices :
        vals = EmptyGrid => mp[1] = SmallMaxChecks}

-----------------------------------------------------------------------------
(* The state machine: initializePuzzleFromArray, then solvePuzzle *)

Init ==
    /\ values \in Grids
    /\ puzzle = initializePuzzleFromArray(values)
    /\ pc = "constructed"
    /\ unfilledCells = <<>>
    /\ cellIndex = 0
    /\ step = 0

\* where control goes once an operation has run: nowhere if fillCellWithValue threw
Goto(q, target) == IF q.thrown THEN "crashed" ELSE target

\* solvePuzzle up to the first iteration of initializeCandidates' loop
StartSolve(maxChecks, maxChecksWithoutAction) ==
    /\ pc = "constructed"
    /\ LET q == [puzzle EXCEPT
                    !.maxChecks = IF maxChecks # 0 THEN maxChecks ELSE @,
                    !.maxChecksWithoutAction =
                        IF maxChecksWithoutAction # 0 THEN maxChecksWithoutAction ELSE @]
           cells == getUnfilledCells(q)
       IN  /\ puzzle' = q
           /\ unfilledCells' = cells
           /\ cellIndex' = 1
           /\ step' = 0
           /\ pc' = IF Len(cells) = 0 THEN "while" ELSE "initializeCandidates"
    /\ UNCHANGED values

\* initializeCandidates, loop body: cell.candidates = [1,2,3,4,5,6,7,8,9]
SeedCandidates ==
    /\ pc = "initializeCandidates" /\ step = 0
    /\ LET cell == unfilledCells[cellIndex]
       IN  puzzle' = IF HasValue(puzzle, cell)
                     THEN [puzzle EXCEPT !.candidates[cell] = <<puzzle.value[cell]>>]
                     ELSE [puzzle EXCEPT !.candidates[cell] = Digits]
    /\ step' = IF HasValue(puzzle, unfilledCells[cellIndex]) THEN 3 ELSE 1
    /\ UNCHANGED <<values, pc, unfilledCells, cellIndex>>

\* initializeCandidates, loop body: the k-th of the three eliminations, in the
\* source's order
\* variant: the eliminations run row first and box last
initializeCandidatesCheck_rowFirst(k, p, cell) ==
    CASE k = 1 -> checkCellAgainstRow(p, cell)
      [] k = 2 -> checkCellAgainstColumn(p, cell)
      [] k = 3 -> checkCellAgainstBox(p, cell)

initializeCandidatesCheck(k, p, cell) ==
    CASE k = 1 -> checkCellAgainstBox(p, cell)
      [] k = 2 -> checkCellAgainstColumn(p, cell)
      [] k = 3 -> checkCellAgainstRow(p, cell)

InitializeStep(k) ==
    /\ pc = "initializeCandidates" /\ step = k
    /\ LET q == initializeCandidatesCheck(k, puzzle, unfilledCells[cellIndex])
           more == cellIndex < Len(unfilledCells)
       IN  /\ puzzle' = q
           /\ IF k < 3
              THEN /\ step' = k + 1
                   /\ cellIndex' = cellIndex
                   /\ pc' = Goto(q, "initializeCandidates")
              ELSE /\ step' = 0
                   /\ cellIndex' = IF more THEN cellIndex + 1 ELSE cellIndex
                   /\ pc' = Goto(q, IF more THEN "initializeCandidates" ELSE "while")
    /\ UNCHANGED <<values, unfilledCells>>

InitializeAgainstBox == InitializeStep(1)
InitializeAgainstColumn == InitializeStep(2)
InitializeAgainstRow == InitializeStep(3)

\* solvePuzzle: the test of the while loop and, when it passes, getUnfilledCells
WhileTest ==
    /\ pc = "while"
    /\ LET o == okayToKeepTrying(puzzle)
       IN  /\ puzzle' = o.puzzle
           /\ IF o.ok
              THEN /\ unfilledCells' = getUnfilledCells(o.puzzle)
                   /\ cellIndex' = 1
                   /\ step' = 1
                   /\ pc' = "checkCell"
              ELSE /\ pc' = "showReasonForQuitting"
                   /\ UNCHANGED <<unfilledCells, cellIndex, step>>
    /\ UNCHANGED values

\* checkCell: the body of its k-th if statement
checkCellRule(k, p, cell) ==
    CASE k = 1 -> checkWhetherCellIsOnlyPossibilityInRowForAnyNumber(p, cell)
      [] k = 2 -> checkWhetherCellIsOnlyPossibilityInColumnForAnyNumber(p, cell)
      [] k = 3 -> checkWhetherCellIsOnlyPossibilityInBoxForAnyNumber(p, cell)
      [] k = 4 -> checkCellAgainstRow(p, cell)
      [] k = 5 -> checkCellAgainstColumn(p, cell)
      [] k = 6 -> checkCellAgainstBox(p, cell)

\* checkCell: its k-th if statement, guard and body
checkCellStatement(k, p, cell) ==
    LET o == okayToKeepTrying(p)
    IN  IF o.ok /\ ~HasValue(o.puzzle, cell) THEN checkCellRule(k, o.puzzle, cell) ELSE o.puzzle

CheckCellStep(k) ==
    /\ pc = "checkCell" /\ step = k
    /\ LET q == checkCellStatement(k, puzzle, unfilledCells[cellIndex])
           more == cellIndex < Len(unfilledCells)
       IN  /\ puzzle' = q
           /\ IF k < 6
              THEN /\ step' = k + 1
                   /\ cellIndex' = cellIndex
                   /\ pc' = Goto(q, "checkCell")
              ELSE /\ step' = 1
                   /\ cellIndex' = IF more THEN cellIndex + 1 ELSE cellIndex
                   /\ pc' = Goto(q, IF more THEN "checkCell" ELSE "while")
    /\ UNCHANGED <<values, unfilledCells>>

OnlyPossibilityInRow == CheckCellStep(1)
OnlyPossibilityInColumn == CheckCellStep(2)
OnlyPossibilityInBox == CheckCellStep(3)
AgainstRow == CheckCellStep(4)
AgainstColumn == CheckCellStep(5)
AgainstBox == CheckCellStep(6)

\* showReasonForQuitting: "exit" is process.exit(-1) after verifySolution threw
ShowReasonForQuitting ==
    /\ pc = "showReasonForQuitting"
    /\ LET s == puzzleIsSolved(puzzle)
       IN  /\ puzzle' = s.puzzle
           /\ pc' = IF reasonForQuitting(puzzle) = "CONFLICT" THEN "exit" ELSE "done"
    /\ UNCHANGED <<values, unfilledCells, cellIndex, step>>

Next ==
    \/ \E mp \in Parameters(values) : StartSolve(mp[1], mp[2])
    \/ SeedCandidates
    \/ InitializeAgainstBox
    \/ InitializeAgainstColumn
    \/ InitializeAgainstRow
    \/ WhileTest
    \/ OnlyPossibilityInRow
    \/ OnlyPossibilityInColumn
    \/ OnlyPossibilityInBox
    \/ AgainstRow
    \/ AgainstColumn
    \/ AgainstBox
    \/ ShowReasonForQuitting

Spec == Init /\ [][Next]_vars

\* the positions of solvePuzzle
Positions ==
    {"constructed", "initializeCandidates", "while", "checkCell", "showReasonForQuitting",
     "done", "exit", "crashed"}

\* solvePuzzle has been neither left nor abandoned
Running == pc \notin {"done", "exit", "crashed"}

\* where solvePuzzle stands: every step of Next moves it
control == <<pc, cellIndex, step>>

\* control moves on while solvePuzzle is running
ControlAdvances ==
    /\ Running
    /\ pc' \in Positions
    /\ cellIndex' \in 0 .. 81
    /\ step' \in 0 .. 6

\* solvePuzzle is synchronous code on one thread and waits for nothing: while it is
\* running its next step is taken.  The fairness condition is stated on the control
\* variables, which every step changes.
FairSpec == Init /\ [][Next]_vars /\ WF_control(ControlAdvances)

-----------------------------------------------------------------------------
(* solvePuzzle as one operator, composed of the same steps, for properties   *)
(* that speak of a second solve.                                            *)

RECURSIVE initializeCell(_, _, _, _)
\* initializeCandidates, loop body after the seeding: the eliminations named by
\* order, from its k-th
initializeCell(p, cell, order, k) ==
    IF k > Len(order) THEN p
    ELSE initializeCell(initializeCandidatesCheck(order[k], p, cell), cell, order, k + 1)

RECURSIVE initializeCandidatesFrom(_, _, _, _)
\* initializeCandidates, the loop from its k-th unfilled cell
initializeCandidatesFrom(p, cells, order, k) ==
    IF p.thrown \/ k > Len(cells) THEN p
    ELSE initializeCandidatesFrom(
            IF HasValue(p, cells[k])
            THEN [p EXCEPT !.candidates[cells[k]] = <<p.value[cells[k]]>>]
            ELSE initializeCell([p EXCEPT !.candidates[cells[k]] = Digits], cells[k], order, 1),
            cells, order, k + 1)

\* initializeCandidates with the three eliminations applied in the given order
initializeCandidatesInOrder(p, order) ==
    initializeCandidatesFrom(p, getUnfilledCells(p), order, 1)

\* the order of the source: box, column, row
SourceOrder == <<1, 2, 3>>

initializeCandidates(p) == initializeCandidatesInOrder(p, SourceOrder)

RECURSIVE checkCellFrom(_, _, _)
\* checkCell from its k-th if statement
checkCellFrom(p, cell, k) ==
    IF k > 6 THEN p
    ELSE checkCellFrom(checkCellStatement(k, p, cell), cell, k + 1)

checkCell(p, cellNumber) == checkCellFrom(p, cellNumber, 1)

RECURSIVE checkCellsFrom(_, _, _)
\* solvePuzzle: the for loop over unfilledCells, from its k-th cell
checkCellsFrom(p, cells, k) ==
    IF p.thrown \/ k > Len(cells) THEN p
    ELSE checkCellsFrom(checkCell(p, cells[k]), cells, k + 1)

RECURSIVE solveLoop(_)
\* solvePuzzle: the while loop
solveLoop(p) ==
    IF p.thrown THEN p
    ELSE IF okayToKeepTrying(p).ok
         THEN solveLoop(checkCellsFrom(okayToKeepTrying(p).puzzle,
                                       getUnfilledCells(okayToKeepTrying(p).puzzle), 1))
         ELSE okayToKeepTrying(p).puzzle

\* solvePuzzle up to the call of showReasonForQuitting
solvePuzzle(p, maxChecks, maxChecksWithoutAction) ==
    solveLoop(initializeCandidates(
        [p EXCEPT !.maxChecks = IF maxChecks # 0 THEN maxChecks ELSE @,
                  !.maxChecksWithoutAction =
                      IF maxChecksWithoutAction # 0 THEN maxChecksWithoutAction ELSE @]))

-----------------------------------------------------------------------------

(* Vocabulary of the properties *)

Range(s) == {s[i] : i \in DOMAIN s}

TerminalActionTypes ==
    {"PUZZLE_SOLVED", "QUIT_TRYING_MAX_CHECKS_EXCEEDED",
     "QUIT_TRYING_MAX_CHECKS_WITHOUT_ACTION_EXCEEDED"}

QuitActionTypes ==
    {"QUIT_TRYING_MAX_CHECKS_EXCEEDED", "QUIT_TRYING_MAX_CHECKS_WITHOUT_ACTION_EXCEEDED"}

\* positions of the log that hold an action of one of the given types
ActionsOfType(p, types) == {i \in DOMAIN p.actions : p.actions[i].actionType \in types}

\* the actionReason that goes with a terminal state
ReasonOfState(state) ==
    CASE state = "SOLVED" -> "PUZZLE_SOLVED"
      [] state = "STALLED_BUDGET" -> "MAX_CHECKS_EXCEEDED"
      [] state = "STALLED_STAGNATION" -> "MAX_CHECKS_WITHOUT_ACTION_EXCEEDED"
      [] OTHER -> "none"

NoUnfilledCells(p) == \A c \in Cells : HasValue(p, c)

SameArea(c, d) == Row(c) = Row(d) \/ Column(c) = Column(d) \/ Box(c) = Box(d)

\* a grid verifySolution accepts: no cell has a peer that is unfilled or holds
\* the same value
IsValidSolution(sol) ==
    \A c, d \in Cells : c # d /\ SameArea(c, d) => sol[d + 1] # 0 /\ sol[c + 1] # sol[d + 1]

\* the grid has a valid completion: it agrees with a complete grid of digits
\* that verifySolution accepts
HasValidCompletion(vals) ==
    \E sol \in {ClassicSolution} :
        /\ \A i \in DOMAIN vals : vals[i] # 0 => vals[i] = sol[i]
        /\ \A i \in DOMAIN sol : sol[i] \in 1 .. GridSize
        /\ IsValidSolution(sol)

Max(a, b) == IF a >= b THEN a ELSE b

\* the cell's candidates have been seeded by initializeCandidates
Seeded(c) ==
    /\ pc # "constructed"
    /\ ~puzzle.given[c]
    /\ pc = "initializeCandidates" =>
          \/ IndexOf(unfilledCells, c) < cellIndex - 1
          \/ IndexOf(unfilledCells, c) = cellIndex - 1 /\ step >= 1

-----------------------------------------------------------------------------
(* C1..C10 *)

\* C1: for a grid with a valid completion, whenever no unfilled cell is left, no
\* two cells sharing a row, column or box hold equal values and every value is in
\* 1..9, i.e. verifySolution does not raise its Conflict error.
C1_SolvedGridIsValid ==
    NoUnfilledCells(puzzle) =>
        (HasValidCompletion(values) =>
            /\ ~verifySolution(puzzle)
            /\ \A c \in Cells : puzzle.value[c] \in 1 .. 9)

\* C2: when solvePuzzle returns, exactly one of SOLVED, STALLED_BUDGET,
\* STALLED_STAGNATION holds, the log holds exactly one terminal action, that action
\* is the last entry and its reason matches the terminal state.
C2_ExactlyOneTerminalAction ==
    pc = "done" =>
        /\ reasonForQuitting(puzzle) \in {"SOLVED", "STALLED_BUDGET", "STALLED_STAGNATION"}
        /\ Cardinality(ActionsOfType(puzzle, TerminalActionTypes)) = 1
        /\ Last(puzzle.actions).actionType \in TerminalActionTypes
        /\ Last(puzzle.actions).actionReason = ReasonOfState(reasonForQuitting(puzzle))

\* C3 as claimed: checkCounter never exceeds maxChecks, and it equals maxChecks
\* whenever solvePuzzle ends in STALLED_BUDGET.
C3_CounterNeverExceedsMaxChecks ==
    /\ pc # "constructed" => puzzle.checkCounter <= puzzle.maxChecks
    /\ pc = "done" /\ reasonForQuitting(puzzle) = "STALLED_BUDGET"
          => puzzle.checkCounter = puzzle.maxChecks

\* C3 as amended: when solvePuzzle ends in STALLED_BUDGET, checkCounter is at least
\* maxChecks.  Only the sole-candidate steps keep it from passing maxChecks; a
\* peer-elimination step of the main loop, which starts below maxChecks and looks
\* at no more than 8 peers and then counts one fill, can take it up to maxChecks + 8, and candidate
\* initialization does not consult the budget at all.
C3_CounterReachesMaxChecks ==
    [][ /\ pc' = "done" /\ reasonForQuitting(puzzle') = "STALLED_BUDGET"
            => puzzle'.checkCounter >= puzzle'.maxChecks
        /\ pc = "checkCell" /\ step \in 1 .. 3
            => puzzle'.checkCounter <= Max(puzzle.checkCounter, puzzle.maxChecks)
        /\ pc = "checkCell" /\ step \in 4 .. 6
            => puzzle'.checkCounter <= Max(puzzle.checkCounter, puzzle.maxChecks + 8)
      ]_vars

\* C3 witness: solvePuzzle has ended in STALLED_BUDGET with checkCounter past
\* maxChecks
C3_Witness ==
    /\ pc = "done"
    /\ reasonForQuitting(puzzle) = "STALLED_BUDGET"
    /\ puzzle.checkCounter > puzzle.maxChecks

\* C4: when solvePuzzle has ended in STALLED_STAGNATION,
\* checkCounter - lastCheckWithAction = maxChecksWithoutAction.
C4_StagnationDistance ==
    pc = "done" /\ reasonForQuitting(puzzle) = "STALLED_STAGNATION"
        => puzzle.checkCounter - puzzle.lastCheckWithAction = puzzle.maxChecksWithoutAction

\* C5: solvePuzzle terminates: the main loop is eventually left for
\* showReasonForQuitting, and the first rule step of every sweep increases
\* checkCounter (so that maxChecks is reached even if stagnation does not stop
\* the loop).
C5_Terminates ==
    /\ <>(pc = "showReasonForQuitting")
    /\ [][pc = "checkCell" /\ cellIndex = 1 /\ step = 1
            => puzzle'.checkCounter > puzzle.checkCounter]_vars

\* C5 witness: the loop has been left on the budget guard after the stagnation
\* guard had tripped without stopping it
C5_Witness ==
    /\ pc = "showReasonForQuitting"
    /\ Last(puzzle.actions).actionType = "QUIT_TRYING_MAX_CHECKS_EXCEEDED"
    /\ ActionsOfType(puzzle, {"QUIT_TRYING_MAX_CHECKS_WITHOUT_ACTION_EXCEEDED"}) # {}

\* the solution string of the classic example, character by character
ClassicSolutionString ==
    <<"5", "3", "4", "6", "7", "8", "9", "1", "2",
       "6", "7", "2", "1", "9", "5", "3", "4", "8",
       "1", "9", "8", "3", "4", "2", "5", "6", "7",
       "8", "5", "9", "7", "6", "1", "4", "2", "3",
       "4", "2", "6", "8", "5", "3", "7", "9", "1",
       "7", "1", "3", "9", "2", "4", "8", "5", "6",
       "9", "6", "1", "5", "3", "7", "2", "8", "4",
       "2", "8", "7", "4", "1", "9", "6", "3", "5",
       "3", "4", "5", "2", "8", "6", "1", "7", "9">>

\* C6: on the classic example grid with the default budgets solvePuzzle ends SOLVED,
\* no budget guard has tripped, and the solution string is the expected one.
C6_ClassicExample ==
    /\ values = ClassicGrid
    /\ puzzle.maxChecks = DefaultMaxChecks
    /\ puzzle.maxChecksWithoutAction = DefaultMaxChecksWithoutAction
    /\ pc \in {"showReasonForQuitting", "done", "exit", "crashed"}
    => /\ pc # "exit" /\ pc # "crashed"
       /\ reasonForQuitting(puzzle) = "SOLVED"
       /\ ActionsOfType(puzzle, QuitActionTypes) = {}
       /\ outputPuzzleAsStringOfNumbers(puzzle) = ClassicSolutionString

C6_Witness ==
    /\ values = ClassicGrid
    /\ puzzle.maxChecks = DefaultMaxChecks
    /\ puzzle.maxChecksWithoutAction = DefaultMaxChecksWithoutAction
    /\ pc = "done"
    /\ Len(outputPuzzleAsStringOfNumbers(puzzle)) = 81

\* a cell has a value iff its candidates are exactly the singleton of that value
ValueIffSingleton(p, c) == HasValue(p, c) <=> p.candidates[c] = <<p.value[c]>>

\* C7: in every state and for every cell, given cells included, the cell has a
\* value iff its candidates are the singleton of that value, and the candidates of
\* a filled cell never change.  (Stated on steps: it speaks of every state a step
\* leads to.)
C7_ValueIffSingletonCandidates ==
    [][ \A c \in Cells :
            /\ ValueIffSingleton(puzzle', c)
            /\ HasValue(puzzle, c) => puzzle'.candidates[c] = puzzle.candidates[c]
      ]_vars

\* C8: the candidates of a seeded cell never gain a digit, and a fill gives the
\* cell a digit that was among its candidates and leaves it no other candidate.
C8_CandidatesOnlyShrink ==
    [][ \A c \in Cells :
            Seeded(c) =>
                /\ Range(puzzle'.candidates[c]) \subseteq Range(puzzle.candidates[c])
                /\ ~HasValue(puzzle, c) /\ HasValue(puzzle', c) =>
                      /\ puzzle'.value[c] \in Range(puzzle.candidates[c])
                      /\ Range(puzzle'.candidates[c]) \subseteq {puzzle'.value[c]}
      ]_vars

\* C8 witness: the sole-candidate rule has filled a cell while another seeded
\* cell is still unfilled with some, but not all, of its candidates eliminated
C8_Witness ==
    /\ \E i \in DOMAIN puzzle.actions :
          /\ puzzle.actions[i].actionType = "FILL_CELL"
          /\ puzzle.actions[i].actionReason \in {"ROW_CHECK", "COLUMN_CHECK", "BOX_CHECK"}
    /\ \E c \in Cells :
          /\ Seeded(c) /\ ~HasValue(puzzle, c)
          /\ Len(puzzle.candidates[c]) \in 2 .. 8

\* the cells named by the fill-cell actions of the log
FilledByEngine(p) == {p.actions[i].cells[1] : i \in ActionsOfType(p, {"FILL_CELL"})}

\* C9: a value, once set, never changes; a given cell keeps its input digit and
\* its given flag; no cell is named by two fill-cell actions, and none of them
\* names a given cell.
C9_ValuesNeverChange ==
    [][ /\ \A c \in Cells :
              /\ puzzle.value[c] # 0 => puzzle'.value[c] = puzzle.value[c]
              /\ values[c + 1] # 0 => puzzle'.value[c] = values[c + 1] /\ puzzle'.given[c]
        /\ puzzle'.given = puzzle.given
        /\ Cardinality(FilledByEngine(puzzle')) = Cardinality(ActionsOfType(puzzle', {"FILL_CELL"}))
        /\ \A c \in FilledByEngine(puzzle') : values[c + 1] = 0
      ]_vars

\* C9 witness: the engine has filled all the cells the givens left open
C9_Witness ==
    /\ pc = "done"
    /\ \E c \in Cells : puzzle.given[c]
    /\ FilledByEngine(puzzle) = {c \in Cells : ~puzzle.given[c]}
    /\ FilledByEngine(puzzle) # {}

\* C10: a grid with a value outside 0..9 is rejected by construction: no puzzle
\* is produced whose cell holds an out-of-range given value, and no such grid is
\* ever solved.
C10_OutOfRangeRejected ==
    /\ \A c \in Cells : puzzle.given[c] => puzzle.value[c] \in 1 .. 9
    /\ (\E i \in DOMAIN values : values[i] \notin 0 .. 9) => pc = "constructed"

\* C11: on a cell that already has a value each of the three sole-candidate checks
\* and each of the three peer-elimination checks, and the area scans they
\* delegate to, leave the puzzle as it is: log, checkCounter, lastCheckWithAction,
\* values and candidates.
C11_ChecksOnFilledCellAreNoOps ==
    \A c \in Cells :
        puzzle.value[c] # 0 =>
            /\ checkWhetherCellIsOnlyPossibilityInRowForAnyNumber(puzzle, c) = puzzle
            /\ checkWhetherCellIsOnlyPossibilityInColumnForAnyNumber(puzzle, c) = puzzle
            /\ checkWhetherCellIsOnlyPossibilityInBoxForAnyNumber(puzzle, c) = puzzle
            /\ checkWhetherCellIsOnlyPossibilityInAreaForAnyNumber(puzzle,
                    getCellsInRow(puzzle, Row(c), "ALL_CELLS", Null), c, "ROW_CHECK") = puzzle
            /\ checkCellAgainstRow(puzzle, c) = puzzle
            /\ checkCellAgainstColumn(puzzle, c) = puzzle
            /\ checkCellAgainstBox(puzzle, c) = puzzle
            /\ checkCellAgainstArrayOfCells(puzzle, c,
                    getCellsInRow(puzzle, Row(c), "FILLED_CELLS", c), "ROW_CHECK") = puzzle

\* C11 witness: the main loop is running with given cells, cells the engine has
\* filled, and an unfilled cell on which a check does change the puzzle
C11_Witness ==
    /\ pc = "checkCell"
    /\ \E c \in Cells : puzzle.value[c] # 0 /\ puzzle.given[c]
    /\ \E c \in Cells : puzzle.value[c] # 0 /\ ~puzzle.given[c]
    /\ \E d \in Cells : puzzle.value[d] = 0
                        /\ checkWhetherCellIsOnlyPossibilityInRowForAnyNumber(puzzle, d) # puzzle

\* the number a character of the solution string stands for
DigitOfChar(ch) ==
    CHOOSE d \in 0 .. 9 : <<"0", "1", "2", "3", "4", "5", "6", "7", "8", "9">>[d + 1] = ch

\* an 81-character string re-parsed as a grid, row-major
parseSolutionString(str) == [i \in 1 .. GridSize * GridSize |-> DigitOfChar(str[i])]

\* solvePuzzle has left its loop with every cell filled
ReachedSolved ==
    /\ pc \in {"showReasonForQuitting", "done", "exit"}
    /\ puzzleIsSolved(puzzle).solved

\* the puzzle built from the solution string of p and solved with the defaults
ReSolved(p) ==
    solvePuzzle(initializePuzzleFromArray(parseSolutionString(outputPuzzleAsStringOfNumbers(p))),
                DefaultMaxChecks, DefaultMaxChecksWithoutAction)

\* C12: for every puzzle that reached SOLVED the solution string has 81 characters,
\* and the grid re-parsed from it (all cells given) is solved again at once: the
\* only action logged is puzzle-solved, checkCounter stays 0, and the solution
\* string is the same.
C12_RoundTrip ==
    ReachedSolved =>
        /\ Len(outputPuzzleAsStringOfNumbers(puzzle)) = GridSize * GridSize
        /\ \A c \in Cells : ReSolved(puzzle).given[c]
        /\ NoUnfilledCells(ReSolved(puzzle))
        /\ ActionsOfType(ReSolved(puzzle), {"PUZZLE_SOLVED"}) = DOMAIN ReSolved(puzzle).actions
        /\ Len(ReSolved(puzzle).actions) = 1
        /\ ReSolved(puzzle).checkCounter = 0
        /\ outputPuzzleAsStringOfNumbers(ReSolved(puzzle)) = outputPuzzleAsStringOfNumbers(puzzle)

\* C13: fillCellWithValue on a cell that already holds a value, asked to fill in
\* the same or another digit, throws and changes nothing: values, candidates,
\* log, checkCounter and lastCheckWithAction are as before the call.
C13_FillOfFilledCellThrows ==
    \A c \in Cells :
        puzzle.value[c] # 0 /\ ~puzzle.thrown =>
            \A v \in {puzzle.value[c], (puzzle.value[c] % 9) + 1},
               r \in {"ONLY_CANDIDATE", "BOX_CHECK"} :
                fillCellWithValue(puzzle, c, v, r) = [puzzle EXCEPT !.thrown = TRUE]

\* C13 witness: there are given cells, cells the engine filled, and an unfilled
\* cell with a candidate whose fill goes through and cascades
C13_Witness ==
    /\ \E c \in Cells : puzzle.value[c] # 0 /\ puzzle.given[c]
    /\ \E c \in Cells : puzzle.value[c] # 0 /\ ~puzzle.given[c]
    /\ \E d \in Cells :
          /\ puzzle.value[d] = 0 /\ Len(puzzle.candidates[d]) >= 2
          /\ ~fillCellWithValue(puzzle, d, puzzle.candidates[d][1], "ROW_CHECK").thrown
          /\ Len(fillCellWithValue(puzzle, d, puzzle.candidates[d][1], "ROW_CHECK").actions)
                > Len(puzzle.actions) + 1

\* d shares with c the area a sole-candidate reason speaks of
InAreaOfReason(reason, c, d) ==
    CASE reason = "ROW_CHECK" -> Row(c) = Row(d)
      [] reason = "COLUMN_CHECK" -> Column(c) = Column(d)
      [] reason = "BOX_CHECK" -> Box(c) = Box(d)
      [] OTHER -> FALSE

\* the positions of the log of q that the log of p does not have yet
NewActions(p, q) == (Len(p.actions) + 1) .. Len(q.actions)

\* C14: every fill-cell action logged with reason row-check, column-check or
\* box-check is sound: when the step that logs it starts (the scan that precedes
\* the fill changes no candidates), the digit is a candidate of the cell and no
\* other cell of that row, column or box lists it as a candidate.
C14_SoleCandidateFillsAreSound ==
    [][ \A i \in NewActions(puzzle, puzzle') :
            puzzle'.actions[i].actionType = "FILL_CELL"
            /\ puzzle'.actions[i].actionReason \in {"ROW_CHECK", "COLUMN_CHECK", "BOX_CHECK"}
            => /\ puzzle'.actions[i].candidates[1] \in Range(puzzle.candidates[puzzle'.actions[i].cells[1]])
               /\ \A d \in Cells \ {puzzle'.actions[i].cells[1]} :
                     InAreaOfReason(puzzle'.actions[i].actionReason, puzzle'.actions[i].cells[1], d)
                     => puzzle'.actions[i].candidates[1] \notin Range(puzzle.candidates[d])
      ]_vars

\* C15: the stalled states are absorbing: once a quit action is in the log, no step
\* logs a fill-cell or remove-candidates action, changes a value or a candidate
\* list, or increases checkCounter; and a solve in which the stagnation guard has
\* tripped ends in STALLED_STAGNATION.
C15_StalledStatesAreAbsorbing ==
    [][ /\ \A i \in ActionsOfType(puzzle', QuitActionTypes), j \in NewActions(puzzle, puzzle') :
              i < j => puzzle'.actions[j].actionType \notin {"FILL_CELL", "REMOVE_CANDIDATES"}
        /\ ActionsOfType(puzzle, QuitActionTypes) # {} =>
              /\ puzzle'.value = puzzle.value
              /\ puzzle'.candidates = puzzle.candidates
              /\ puzzle'.checkCounter <= puzzle.checkCounter
        /\ pc' = "done"
           /\ ActionsOfType(puzzle', {"QUIT_TRYING_MAX_CHECKS_WITHOUT_ACTION_EXCEEDED"}) # {}
           => reasonForQuitting(puzzle') = "STALLED_STAGNATION"
      ]_vars

\* the positions of the log of p that hold a remove-candidates action on cell c
RemovalsOn(p, c) ==
    {i \in DOMAIN p.actions :
        p.actions[i].actionType = "REMOVE_CANDIDATES" /\ p.actions[i].cells[1] = c}

\* A step that initializes a cell logs removals on it in the order of the reasons
\* in `order`, with respect to the removals already logged on it.
InitializationRemovalsOrdered(order) ==
    pc = "initializeCandidates" /\ step \in 1 .. 3 =>
        \A j \in RemovalsOn(puzzle', unfilledCells[cellIndex]) \cap NewActions(puzzle, puzzle'),
           i \in RemovalsOn(puzzle', unfilledCells[cellIndex]) :
            i < j => IndexOf(order, puzzle'.actions[i].actionReason)
                        <= IndexOf(order, puzzle'.actions[j].actionReason)

\* C16 as claimed: candidate initialization eliminates against the row, then the
\* column, then the box: in the log, a cell's row-check removals precede its
\* column-check removals, which precede its box-check removals.
C16_InitializationRowColumnBox ==
    [][InitializationRemovalsOrdered(<<"ROW_CHECK", "COLUMN_CHECK", "BOX_CHECK">>)]_vars

\* C16 as amended: candidate initialization eliminates against the box, then the
\* column, then the row: in the log, the removals a cell's own initialization
\* makes are its box-check removals, then its column-check removals, then its
\* row-check removals.
C16_InitializationBoxColumnRow ==
    [][InitializationRemovalsOrdered(<<"BOX_CHECK", "COLUMN_CHECK", "ROW_CHECK">>)]_vars

\* C16 witness: initialization has just finished a cell on which it logged
\* removals of all three kinds
C16_Witness ==
    /\ pc = "initializeCandidates" /\ step = 0 /\ cellIndex > 1
    /\ \A r \in {"BOX_CHECK", "COLUMN_CHECK", "ROW_CHECK"} :
          \E i \in RemovalsOn(puzzle, unfilledCells[cellIndex - 1]) :
              puzzle.actions[i].actionReason = r

\* the six orders in which the three eliminations can be applied
EliminationOrders == {<<1, 2, 3>>, <<1, 3, 2>>, <<2, 1, 3>>, <<2, 3, 1>>, <<3, 1, 2>>, <<3, 2, 1>>}

\* candidate initialization has just ended
InitializationEnded == pc = "while" /\ step = 0

\* C17: for a grid with a valid completion, the values and candidates at the end
\* of candidate initialization are those that each of the six orders of the row,
\* column and box eliminations produces.
C17_InitializationOrderIrrelevant ==
    InitializationEnded /\ HasValidCompletion(values) =>
        \A order \in EliminationOrders :
            \A q \in {initializeCandidatesInOrder(initializePuzzleFromArray(values), order)} :
                q.value = puzzle.value /\ q.candidates = puzzle.candidates

\* C17 witness: initialization of a grid with a valid completion has ended with
\* cells filled by the engine and cells left open, and another order of the
\* eliminations gives a different log
C17_Witness ==
    /\ InitializationEnded /\ HasValidCompletion(values)
    /\ \E c \in Cells : puzzle.value[c] # 0 /\ ~puzzle.given[c]
    /\ \E c \in Cells : puzzle.value[c] = 0 /\ Len(puzzle.candidates[c]) \in 2 .. 8
    /\ initializeCandidatesInOrder(initializePuzzleFromArray(values), <<3, 2, 1>>).actions
          # puzzle.actions

\* the reason the k-th step of checkCell gives to what it logs on its cell
CheckCellReasons == <<"ROW_CHECK", "COLUMN_CHECK", "BOX_CHECK", "ROW_CHECK", "COLUMN_CHECK", "BOX_CHECK">>

\* the step leaves checkCounter and every cell as they are
CellsAndCounterUnchanged ==
    /\ puzzle'.checkCounter = puzzle.checkCounter
    /\ puzzle'.value = puzzle.value
    /\ puzzle'.candidates = puzzle.candidates

\* C18: checkCell runs sole-candidate-in-row, -column, -box and then
\* peer-elimination against row, column, box, in this order: the fills of steps
\* 1..3 carry the reason of their step and are fills of the cell checked, and
\* steps 4..6 log no such fill.  A step is executed only while the cell is
\* unfilled and no guard has tripped: if the cell is filled, or the previous step
\* of the cell ended on a quit action, the step neither increments checkCounter
\* nor changes a cell.
C18_CheckCellSequence ==
    [][ pc = "checkCell" =>
            /\ \A i \in NewActions(puzzle, puzzle') :
                  puzzle'.actions[i].actionType = "FILL_CELL"
                  /\ puzzle'.actions[i].actionReason # "ONLY_CANDIDATE"
                  => /\ step \in 1 .. 3
                     /\ puzzle'.actions[i].actionReason = CheckCellReasons[step]
                     /\ puzzle'.actions[i].cells[1] = unfilledCells[cellIndex]
            /\ puzzle.value[unfilledCells[cellIndex]] # 0 => CellsAndCounterUnchanged
            /\ step \in 2 .. 6 /\ puzzle.actions # <<>>
               /\ Last(puzzle.actions).actionType \in QuitActionTypes
                  => CellsAndCounterUnchanged
      ]_vars

\* the cells that share a row, a column or a box with a cell
Peers == [c \in Cells |-> {d \in Cells \ {c} : SameArea(c, d)}]

\* no unfilled peer of c lists the digit v
NoUnfilledPeerLists(p, c, v) ==
    \A d \in Peers[c] : p.value[d] = 0 => v \notin Range(p.candidates[d])

\* C19: when a step has filled a cell with a digit, cascade included, no unfilled
\* peer of the cell lists the digit; at every boundary between rule steps after
\* candidate initialization no unfilled cell lists the value of a filled peer; and
\* the peer-elimination steps of the main loop change no candidates and no values.
C19_FilledValuesAreEliminated ==
    [][ /\ \A i \in NewActions(puzzle, puzzle') :
              puzzle'.actions[i].actionType = "FILL_CELL"
              => NoUnfilledPeerLists(puzzle', puzzle'.actions[i].cells[1],
                                     puzzle'.actions[i].candidates[1])
        /\ pc' \notin {"constructed", "initializeCandidates"}
              => \A c \in Cells : puzzle'.value[c] # 0
                                  => NoUnfilledPeerLists(puzzle', c, puzzle'.value[c])
        /\ pc = "checkCell" /\ step \in 4 .. 6
              => puzzle'.candidates = puzzle.candidates /\ puzzle'.value = puzzle.value
      ]_vars

\* C19 witness: a peer-elimination step of the main loop is about to run on an
\* unfilled cell that has peers given and peers filled by the engine, and has
\* lost some but not all of its candidates
C19_Witness ==
    /\ pc = "checkCell" /\ step \in 4 .. 6
    /\ okayToKeepTrying(puzzle).ok
    /\ puzzle.value[unfilledCells[cellIndex]] = 0
    /\ Len(puzzle.candidates[unfilledCells[cellIndex]]) \in 2 .. 8
    /\ \E d \in Peers[unfilledCells[cellIndex]] : puzzle.given[d]
    /\ \E d \in Peers[unfilledCells[cellIndex]] : puzzle.value[d] # 0 /\ ~puzzle.given[d]


\* the fills logged between p and q
FillsIn(p, q) ==
    {i \in NewActions(p, q) : q.actions[i].actionType = "FILL_CELL"}

\* the removals logged between p and q after a fill: the removals of a cascade
CascadeRemovals(p, q) ==
    {j \in NewActions(p, q) :
        /\ q.actions[j].actionType = "REMOVE_CANDIDATES"
        /\ \E i \in FillsIn(p, q) : i < j}

\* the fills whose cascade can have produced removal j: an earlier fill, with the
\* removed digit, of a peer of the cell
FillsBehind(q, fills, j) ==
    {i \in fills :
        /\ i < j
        /\ q.actions[i].candidates[1] = q.actions[j].candidates[1]
        /\ q.actions[j].cells[1] \in Peers[q.actions[i].cells[1]]}

\* the tag the claim gives the removal a fill of c causes on n
CascadeTag(c, n) ==
    CASE Box(c) = Box(n) -> "BOX_CHECK"
      [] Box(c) # Box(n) /\ Column(c) = Column(n) -> "COLUMN_CHECK"
      [] OTHER -> "ROW_CHECK"

\* C20: every removal of a cascade is the removal of a filled digit from a peer
\* of the filled cell, tagged box-check if the two share a box, otherwise
\* column-check if they share a column, otherwise row-check; and the removals
\* of one fill come in ascending cell index.
C20_CascadeTagsAndOrder ==
    [][ \A fills \in {FillsIn(puzzle, puzzle')} :
        \A removals \in {CascadeRemovals(puzzle, puzzle')} :
          /\ \A j \in removals :
                \E i \in FillsBehind(puzzle', fills, j) :
                    puzzle'.actions[j].actionReason =
                        CascadeTag(puzzle'.actions[i].cells[1], puzzle'.actions[j].cells[1])
          /\ \A j1, j2 \in removals :
                /\ j1 < j2
                /\ puzzle'.actions[j1].candidates = puzzle'.actions[j2].candidates
                /\ \E i \in fills : /\ FillsBehind(puzzle', fills, j1) = {i}
                                    /\ FillsBehind(puzzle', fills, j2) = {i}
                => puzzle'.actions[j1].cells[1] < puzzle'.actions[j2].cells[1]
      ]_vars

\* removal j of the log takes the digit of fill i from a cell with the tag
RemovalBehindFill(i, j, tag) ==
    /\ puzzle.actions[j].actionType = "REMOVE_CANDIDATES"
    /\ puzzle.actions[j].candidates = puzzle.actions[i].candidates
    /\ puzzle.actions[j].actionReason = tag

\* C20 witness: candidate initialization has ended and the log holds a fill
\* followed by removals of its digit from two peers in ascending order, the
\* first in the cell's box and column, the second in its column only, and by
\* one from a peer in its row only
C20_Witness ==
    /\ InitializationEnded
    /\ \E i \in DOMAIN puzzle.actions :
        /\ puzzle.actions[i].actionType = "FILL_CELL"
        /\ \E j1 \in (i + 1) .. Len(puzzle.actions) :
            /\ RemovalBehindFill(i, j1, "BOX_CHECK")
            /\ Column(puzzle.actions[j1].cells[1]) = Column(puzzle.actions[i].cells[1])
            /\ \E j2 \in (j1 + 1) .. Len(puzzle.actions) :
                /\ RemovalBehindFill(i, j2, "COLUMN_CHECK")
                /\ Column(puzzle.actions[j2].cells[1]) = Column(puzzle.actions[i].cells[1])
                /\ Box(puzzle.actions[j2].cells[1]) # Box(puzzle.actions[i].cells[1])
                /\ puzzle.actions[j1].cells[1] < puzzle.actions[j2].cells[1]
        /\ \E j3 \in (i + 1) .. Len(puzzle.actions) :
            /\ RemovalBehindFill(i, j3, "ROW_CHECK")
            /\ Row(puzzle.actions[j3].cells[1]) = Row(puzzle.actions[i].cells[1])
            /\ Box(puzzle.actions[j3].cells[1]) # Box(puzzle.actions[i].cells[1])


\* the log holds a puzzle-solved action
SolvedLogged(p) == ActionsOfType(p, {"PUZZLE_SOLVED"}) # {}

\* C21: the log never holds more than one puzzle-solved action, and once it holds
\* one no step appends an action of any type and neither puzzleIsSolved nor
\* okayToKeepTrying, evaluated again, appends one.
C21_SolvedLoggedOnceAndLast ==
    [][ /\ Cardinality(ActionsOfType(puzzle', {"PUZZLE_SOLVED"})) <= 1
        /\ SolvedLogged(puzzle)
              => /\ puzzle'.actions = puzzle.actions
                 /\ puzzleIsSolved(puzzle).puzzle.actions = puzzle.actions
                 /\ okayToKeepTrying(puzzle).puzzle.actions = puzzle.actions
                 /\ puzzleIsSolved(puzzleIsSolved(puzzle).puzzle).puzzle.actions = puzzle.actions
      ]_vars

\* C21 witness: the puzzle-solved action is logged and the sweep over the cells
\* that were unfilled at its start is still going on, each of its steps
\* evaluating the solved check again
C21_Witness ==
    /\ pc = "checkCell"
    /\ SolvedLogged(puzzle)
    /\ cellIndex < Len(unfilledCells)
    /\ \E i \in DOMAIN puzzle.actions : puzzle.actions[i].actionType = "FILL_CELL"


\* C22: fillCellWithValue is never asked to fill a cell that holds a value:
\* no run of solvePuzzle throws, on any grid and with any budgets.
C22_FillNeverThrows ==
    ~puzzle.thrown /\ pc # "crashed"

\* C22 witness: a cell the engine filled has lost its own value from its
\* candidates, which happens only when a cascade reaches a neighbor that a
\* nested fill had filled since the neighbors were collected; nothing was thrown
C22_Witness ==
    /\ ~puzzle.thrown
    /\ pc \in {"while", "checkCell", "done", "exit"}
    /\ \E c \in Cells :
        /\ puzzle.value[c] # 0
        /\ ~puzzle.given[c]
        /\ puzzle.candidates[c] = <<>>
        /\ \E i \in DOMAIN puzzle.actions :
            /\ puzzle.actions[i].actionType = "REMOVE_CANDIDATES"
            /\ puzzle.actions[i].cells = <<c>>
            /\ puzzle.actions[i].candidates = <<puzzle.value[c]>>


\* candidate initialization has completed
InitializationCompleted == pc \notin {"constructed", "initializeCandidates"}

\* C23: once candidate initialization has completed, every unfilled cell has at
\* least two candidates at every boundary between rule steps, on every grid.
C23_UnfilledCellsHaveTwoCandidates ==
    InitializationCompleted =>
        \A c \in Cells : puzzle.value[c] = 0 => Len(puzzle.candidates[c]) >= 2

\* C23 witness: after initialization of a grid that shows a contradiction (two
\* peers hold the same value, and a cell the engine filled has had its candidates
\* emptied) there are unfilled cells left, one of them down to two candidates
C23_Witness ==
    /\ InitializationCompleted
    /\ \E c \in Cells : puzzle.value[c] = 0
    /\ \E c \in Cells : \E d \in Peers[c] :
            puzzle.value[c] # 0 /\ puzzle.value[c] = puzzle.value[d]
    /\ \E c \in Cells : puzzle.value[c] # 0 /\ ~puzzle.given[c]
    /\ \E c \in Cells : puzzle.value[c] = 0 /\ Len(puzzle.candidates[c]) = 2
    /\ \E c \in Cells : puzzle.value[c] # 0 /\ ~puzzle.given[c] /\ puzzle.candidates[c] = <<>>


\* the grids of the model that have exactly one valid completion; for each of
\* them it is ClassicSolution
UniquelyCompletableGrids == {ClassicGrid, ClassicSolution, HiddenSingleGrid}

\* no quit action, for budget or for stagnation, has been logged
NoQuitLogged == ActionsOfType(puzzle, QuitActionTypes) = {}

\* the puzzle agrees with the completion: filled cells hold its digits, seeded
\* unfilled cells list them
AgreesWithCompletion(sol) ==
    \A c \in Cells :
        /\ puzzle.value[c] # 0 => puzzle.value[c] = sol[c + 1]
        /\ puzzle.value[c] = 0 /\ Seeded(c) => sol[c + 1] \in Range(puzzle.candidates[c])

\* C24: on a grid with exactly one valid completion S, as long as no quit action
\* has been logged, every filled cell holds the digit S gives it and every
\* unfilled cell whose candidates have been seeded lists S's digit for it.
C24_DeductionsAreSoundBeforeQuit ==
    values \in UniquelyCompletableGrids /\ NoQuitLogged
        => AgreesWithCompletion(ClassicSolution)

\* C24 witness: on such a grid, with no quit action logged, the main loop has
\* filled a cell because no other cell of an area could take the digit, and
\* unfilled cells with several candidates remain
C24_Witness ==
    /\ values \in UniquelyCompletableGrids
    /\ NoQuitLogged
    /\ pc = "checkCell"
    /\ \E i \in DOMAIN puzzle.actions :
        /\ puzzle.actions[i].actionType = "FILL_CELL"
        /\ puzzle.actions[i].actionReason \in {"ROW_CHECK", "COLUMN_CHECK", "BOX_CHECK"}
    /\ \E c \in Cells : puzzle.value[c] = 0 /\ Len(puzzle.candidates[c]) >= 2

====
